---- MODULE Spec2Model ----
(***************************************************************************)
(* AXTP reference implementation (src/src/axtp.py): the TrustEngine's      *)
(* scoring functions and the ExperiencePool's operations deposit,          *)
(* retrieve, validate, inspect, eviction and audit logging.                *)
(*                                                                         *)
(* Numbers.  Scores are Python floats rounded to 4 decimals; they are      *)
(* modelled as integers counting 1/10000 (0.5 is 5000).  The recency       *)
(* factor, which is not rounded before it is weighted, counts 1/1000000.   *)
(* Time is counted in whole days; a timestamp is the day it names, so the  *)
(* order of timestamps is the order of the ISO strings of the code.        *)
(* Strings that the code inspects character by character (task types) are  *)
(* sequences of characters.                                                *)
(***************************************************************************)
EXTENDS Integers, Sequences, FiniteSets, TLC

VARIABLES
    max_records,        \* ExperiencePool.max_records (configuration)
    records,            \* ExperiencePool._records, in dict (insertion) order
    audit_log,          \* ExperiencePool._audit_log
    agent_reputations,  \* TrustEngine.agent_reputations
    outcome_feedback,   \* TrustEngine.outcome_feedback
    now,                \* datetime.now(timezone.utc), in days
    pc,                 \* position of the running deposit call, or "idle"
    xr_arg,             \* <<xr>> while deposit(xr) runs, <<>> otherwise
    ret,                \* the call that returned last, with what it returned
    seen                \* <<what a caller has kept of a retrieve>>, or <<>>

vars == <<max_records, records, audit_log, agent_reputations,
          outcome_feedback, now, pc, xr_arg, ret, seen>>

----------------------------------------------------------------------------
(* Bounds of the model *)

\* largest capacity a pool is constructed with
MaxCap == 2
\* operations are started only while the audit log is shorter than this
MaxLog == 3
\* the clock runs from day 0 to this day
MaxTime == 1
\* feedback entries recorded per record id
MaxFeedback == 1
\* operations are started under SpecConfirm only while the audit log is
\* shorter than this
MaxConfirmLog == 5

----------------------------------------------------------------------------
(* Enums and program constants *)

OutcomeStatus == {"success", "partial_success", "failure", "aborted"}

ValidationStatus == {"pending", "validated", "disputed"}

ValidationType == {"confirm", "dispute", "amend"}

\* one, as a score
One == 10000
\* get_agent_reputation's default, 0.5
DefaultReputation == 5000
\* ExperiencePool.min_confidence_threshold, 0.3
min_confidence_threshold == 3000
\* retrieve's default max_results
DefaultMaxResults == 10
\* ExperiencePool's default max_records
DefaultMaxRecords == 10000
\* the reputation step of a confirm or a dispute, 0.05
ReputationDelta == 500
\* a confirm validates a record that has this many validator entries
ValidatedThreshold == 2

----------------------------------------------------------------------------
(* Strings *)

\* "x.y", "x.y.z", "x.yz" and the empty string, as character sequences
TypeXY == <<"x", ".", "y">>

TypeXYZ == <<"x", ".", "y", ".", "z">>

TypeXYz == <<"x", ".", "y", "z">>

EmptyStr == <<>>

\* str.startswith
StartsWith(s, prefix) ==
    /\ Len(prefix) <= Len(s)
    /\ SubSeq(s, 1, Len(prefix)) = prefix

----------------------------------------------------------------------------
(* Arithmetic helpers *)

Min(a, b) == IF a < b THEN a ELSE b

Max(a, b) == IF a > b THEN a ELSE b

\* round(n / d) for d > 0, ties to even, as Python's round
RoundDiv(n, d) ==
    LET q == n \div d
        r == n % d
    IN  IF 2 * r < d THEN q
        ELSE IF 2 * r > d THEN q + 1
        ELSE IF q % 2 = 0 THEN q ELSE q + 1

----------------------------------------------------------------------------
(* TrustEngine *)

\* the weights of compute_trust_score, in percent
weight_reputation == 30

weight_validation == 25

weight_outcome == 25

weight_recency == 10

weight_consistency == 10

get_agent_reputation(reps, agent_id) ==
    IF agent_id \in DOMAIN reps THEN reps[agent_id] ELSE DefaultReputation

\* update_agent_reputation without the clamp to [0,1]
update_agent_reputation_unclamped(reps, agent_id, delta) ==
    [a \in DOMAIN reps \cup {agent_id} |->
        IF a = agent_id THEN get_agent_reputation(reps, agent_id) + delta
        ELSE reps[a]]

update_agent_reputation(reps, agent_id, delta) ==
    LET current == get_agent_reputation(reps, agent_id)
        value == Max(0, Min(One, current + delta))
    IN  [a \in DOMAIN reps \cup {agent_id} |->
            IF a = agent_id THEN value ELSE reps[a]]

\* e^(-h) in 1/1000000, for a whole h
ExpWhole(h) ==
    CASE h = -2 -> 7389056
      [] h = -1 -> 2718282
      [] h = 0 -> 1000000
      [] h = 1 -> 367879
      [] h = 2 -> 135335

\* math.exp(-decay_rate * age_days) with decay_rate 0.01, in 1/1000000.
\* With age_days = 100 * h + d, it is e^(-h) times the series
\* 1 - x + x^2/2 - x^3/6 at x = d/100: exact to 1/1000000 for ages of a
\* few days (h = 0), and to 1/100000 of the value within a few days of
\* 100 * h days, which is as far as the clock and the timestamps here go.
\* Timestamps here are well formed and carry a time zone, so the except
\* branch (0.5) is never taken.
compute_recency_factor(timestamp, clock) ==
    LET age_days == clock - timestamp
        h == (age_days + 50) \div 100
        d == age_days - 100 * h
        series == 1000000 - 10000 * d + 50 * d * d - RoundDiv(d * d * d, 6)
    IN  IF h = 0 THEN series
        ELSE ((ExpWhole(h) \div 10) * (series \div 1000)) \div 100

compute_validation_score(xr) ==
    IF xr.validation_status = "validated"
    THEN Min(One, 7000 + 1000 * Len(xr.validator_ids))
    ELSE IF xr.validation_status = "disputed"
    THEN Max(0, 3000 - 1000 * Len(xr.validator_ids))
    ELSE 5000

\* the fraction <<numerator, denominator>> of helpful feedback, 1/2 without any
compute_outcome_score(feedback, xr_id) ==
    LET fb == IF xr_id \in DOMAIN feedback THEN feedback[xr_id] ELSE <<>>
    IN  IF fb = <<>> THEN <<1, 2>>
        ELSE <<Cardinality({i \in 1..Len(fb) : fb[i]}), Len(fb)>>

\* the consistency fraction of compute_trust_score, 1/2 without peers
compute_consistency(xr, pool_xrs) ==
    LET same_type == {i \in 1..Len(pool_xrs) :
                        /\ pool_xrs[i].task_type = xr.task_type
                        /\ pool_xrs[i].xr_id # xr.xr_id}
        same_outcome == {i \in same_type :
                        pool_xrs[i].outcome_status = xr.outcome_status}
    IN  IF same_type = {} THEN <<1, 2>>
        ELSE <<Cardinality(same_outcome), Cardinality(same_type)>>

\* the weighted sum before clamping, as a fraction <<n, d>> of 1/1000000
WeightedSum(xr, pool_xrs, reps, feedback, clock) ==
    LET reputation == get_agent_reputation(reps, xr.agent_id)
        validation == compute_validation_score(xr)
        outcome == compute_outcome_score(feedback, xr.xr_id)
        recency == compute_recency_factor(xr.timestamp, clock)
        consistency == compute_consistency(xr, pool_xrs)
        d == outcome[2] * consistency[2]
        n == (weight_reputation * reputation + weight_validation * validation) * d
             + weight_outcome * One * outcome[1] * consistency[2]
             + (weight_recency * recency * d) \div 100
             + weight_consistency * One * consistency[1] * outcome[2]
    IN  <<n, d>>

\* compute_trust_score leaving the record's score as the caller gave it
compute_trust_score_keeping_given(xr, pool_xrs, reps, feedback, clock) ==
    xr.confidence_score

\* round(max(0.0, min(1.0, score)), 4), in 1/10000
compute_trust_score(xr, pool_xrs, reps, feedback, clock) ==
    LET s == WeightedSum(xr, pool_xrs, reps, feedback, clock)
        clamped == Max(0, Min(1000000 * s[2], s[1]))
    IN  RoundDiv(clamped, 100 * s[2])

\* record_feedback's new feedback map
record_feedback(feedback, xr_id, was_helpful) ==
    [i \in DOMAIN feedback \cup {xr_id} |->
        IF i = xr_id
        THEN Append(IF i \in DOMAIN feedback THEN feedback[i] ELSE <<>>,
                    was_helpful)
        ELSE feedback[i]]

----------------------------------------------------------------------------
(* ExperiencePool: the record collection and the audit log *)

\* the keys of _records
PoolIds(recs) == {recs[i].xr_id : i \in 1..Len(recs)}

\* the position of key xr_id in _records
IndexOf(recs, xr_id) == CHOOSE i \in 1..Len(recs) : recs[i].xr_id = xr_id

\* self._records[xr_id]
Lookup(recs, xr_id) == recs[IndexOf(recs, xr_id)]

\* self._records[xr.xr_id] = xr: a key already present keeps its position
Store(recs, xr) ==
    IF xr.xr_id \in PoolIds(recs)
    THEN [recs EXCEPT ![IndexOf(recs, xr.xr_id)] = xr]
    ELSE Append(recs, xr)

\* del self._records[xr_id]
Delete(recs, xr_id) == SelectSeq(recs, LAMBDA x : x.xr_id # xr_id)

\* _log writing over the last entry instead of appending
LogOverLast(log, clock, operation, actor, xr_ids, outcome) ==
    SubSeq(log, 1, Len(log) - 1)
        \o <<[timestamp |-> clock, operation |-> operation,
              actor |-> actor, xr_ids |-> xr_ids, outcome |-> outcome]>>

\* ExperiencePool._log
Log(log, clock, operation, actor, xr_ids, outcome) ==
    Append(log, [timestamp |-> clock, operation |-> operation,
                 actor |-> actor, xr_ids |-> xr_ids, outcome |-> outcome])

\* (a.confidence_score, a.timestamp) < (b.confidence_score, b.timestamp)
KeyLess(a, b) ==
    \/ a.confidence_score < b.confidence_score
    \/ /\ a.confidence_score = b.confidence_score
       /\ a.timestamp < b.timestamp

\* min(self._records.values(), key=...): the first record no other is below
Worst(recs) ==
    LET minimal == {i \in 1..Len(recs) :
                        \A j \in 1..Len(recs) : ~KeyLess(recs[j], recs[i])}
    IN  recs[CHOOSE i \in minimal : \A j \in minimal : i <= j]

\* ExperiencePool._evict_oldest: the new _records and _audit_log
evict_oldest(recs, log, clock) ==
    IF recs = <<>>
    THEN [records |-> recs, audit_log |-> log]
    ELSE [records |-> Delete(recs, Worst(recs).xr_id),
          audit_log |-> Log(log, clock, "evict", "system",
                            <<Worst(recs).xr_id>>, "capacity limit reached")]

\* the schema validation checking agent_id alone
MissingAgentId(xr) == xr.agent_id = ""

\* deposit's schema validation
MissingRequiredFields(xr) == xr.agent_id = "" \/ xr.task_type = EmptyStr

\* the capacity check making room one record early
AtCapacityOneEarly(recs, cap) == Len(recs) + 1 >= cap

\* deposit's capacity check
AtCapacity(recs, cap) == Len(recs) >= cap

----------------------------------------------------------------------------
(* ExperiencePool.validate *)

\* validate without its self-validation check
validate_status_no_self_check(recs, xr_id, validator_id) ==
    IF xr_id \notin PoolIds(recs) THEN "error" ELSE "accepted"

\* the status validate returns: error for an unknown id, rejected for a
\* self-validation, accepted otherwise
validate_status(recs, xr_id, validator_id) ==
    IF xr_id \notin PoolIds(recs) THEN "error"
    ELSE IF validator_id = Lookup(recs, xr_id).agent_id THEN "rejected"
    ELSE "accepted"

\* apply_validation with a confirm validating only above the threshold
apply_validation_above_threshold(xr, validator_id, validation_type) ==
    LET ids == Append(xr.validator_ids, validator_id)
    IN  IF validation_type = "confirm"
        THEN [xr EXCEPT !.validator_ids = ids,
                        !.validation_status =
                            IF Len(ids) > ValidatedThreshold
                            THEN "validated" ELSE @]
        ELSE IF validation_type = "dispute"
        THEN [xr EXCEPT !.validator_ids = ids,
                        !.validation_status = "disputed"]
        ELSE [xr EXCEPT !.validator_ids = ids]

\* apply_validation with an amend that appends no validator id
apply_validation_amend_appends_nothing(xr, validator_id, validation_type) ==
    LET ids == Append(xr.validator_ids, validator_id)
    IN  IF validation_type = "confirm"
        THEN [xr EXCEPT !.validator_ids = ids,
                        !.validation_status =
                            IF Len(ids) >= ValidatedThreshold
                            THEN "validated" ELSE @]
        ELSE IF validation_type = "dispute"
        THEN [xr EXCEPT !.validator_ids = ids,
                        !.validation_status = "disputed"]
        ELSE xr

\* apply_validation with a confirm counting distinct validators
apply_validation_distinct_validators(xr, validator_id, validation_type) ==
    LET ids == Append(xr.validator_ids, validator_id)
    IN  IF validation_type = "confirm"
        THEN [xr EXCEPT !.validator_ids = ids,
                        !.validation_status =
                            IF Cardinality({ids[i] : i \in 1..Len(ids)})
                                    >= ValidatedThreshold
                            THEN "validated" ELSE @]
        ELSE IF validation_type = "dispute"
        THEN [xr EXCEPT !.validator_ids = ids,
                        !.validation_status = "disputed"]
        ELSE [xr EXCEPT !.validator_ids = ids]

\* validate's "Apply validation": the record's new validator_ids and status
apply_validation(xr, validator_id, validation_type) ==
    LET ids == Append(xr.validator_ids, validator_id)
    IN  IF validation_type = "confirm"
        THEN [xr EXCEPT !.validator_ids = ids,
                        !.validation_status =
                            IF Len(ids) >= ValidatedThreshold
                            THEN "validated" ELSE @]
        ELSE IF validation_type = "dispute"
        THEN [xr EXCEPT !.validator_ids = ids,
                        !.validation_status = "disputed"]
        ELSE [xr EXCEPT !.validator_ids = ids]

\* validate's reputation update of the producing agent
apply_reputation(reps, xr, validation_type) ==
    IF validation_type = "confirm"
    THEN update_agent_reputation(reps, xr.agent_id, ReputationDelta)
    ELSE IF validation_type = "dispute"
    THEN update_agent_reputation(reps, xr.agent_id, -ReputationDelta)
    ELSE reps

----------------------------------------------------------------------------
(* ExperiencePool.retrieve *)

\* an optional argument: <<>> is None, <<v>> is the value v
Some(v) == <<v>>

Nothing == <<>>

\* `if task_type:`: given and not the empty string
TaskTypeGiven(q) == q.task_type # Nothing /\ q.task_type[1] # EmptyStr

\* the task-type filter without the "." that ends the prefix
TaskTypeMatchesNoDot(xr, task_type) ==
    \/ xr.task_type = task_type
    \/ StartsWith(xr.task_type, task_type)

TaskTypeMatches(xr, task_type) ==
    \/ xr.task_type = task_type
    \/ StartsWith(xr.task_type, task_type \o <<".">>)

\* the task-type and outcome filters of retrieve
PassesFilters(xr, q) ==
    /\ TaskTypeGiven(q) => TaskTypeMatches(xr, q.task_type[1])
    /\ q.outcome_filter # Nothing => xr.outcome_status = q.outcome_filter[1]

\* min_confidence, defaulting to the pool's threshold
MinConfidence(q) ==
    IF q.min_confidence = Nothing THEN min_confidence_threshold
    ELSE q.min_confidence[1]

\* _records had retrieve recomputed no score
RecomputedNothing(recs, q, reps, feedback, clock) == recs

\* _records had retrieve recomputed every record's score, whatever the filters
RecomputedAll(recs, q, reps, feedback, clock) ==
    [i \in 1..Len(recs) |->
        [recs[i] EXCEPT !.confidence_score =
            compute_trust_score(recs[i], recs, reps, feedback, clock)]]

\* _records after retrieve's "Recompute trust scores with current pool state"
Recomputed(recs, q, reps, feedback, clock) ==
    [i \in 1..Len(recs) |->
        IF PassesFilters(recs[i], q)
        THEN [recs[i] EXCEPT !.confidence_score =
                compute_trust_score(recs[i], recs, reps, feedback, clock)]
        ELSE recs[i]]

\* (1 - recency_weight) * confidence_score + recency_weight * recency, in
\* 1/100000000; recency_weight is given in percent
Relevance(xr, recency_weight, clock) ==
    (100 - recency_weight) * xr.confidence_score * 100
        + recency_weight * compute_recency_factor(xr.timestamp, clock)

\* e put into a list sorted by relevance descending, behind its equals
InsertRanked(e, sorted) ==
    LET before == {i \in 1..Len(sorted) : sorted[i].relevance >= e.relevance}
        k == Cardinality(before)
    IN  SubSeq(sorted, 1, k) \o <<e>> \o SubSeq(sorted, k + 1, Len(sorted))

\* scored.sort(key=lambda x: x[0], reverse=True): a stable sort
RECURSIVE SortRanked(_)
SortRanked(scored) ==
    IF scored = <<>> THEN <<>>
    ELSE InsertRanked(scored[Len(scored)],
                      SortRanked(SubSeq(scored, 1, Len(scored) - 1)))

\* Python's s[:k]
SliceTo(s, k) ==
    IF k >= 0 THEN SubSeq(s, 1, Min(k, Len(s)))
    ELSE SubSeq(s, 1, Max(0, Len(s) + k))

\* retrieve's result list, from the records with their recomputed scores
Results(recs, q, clock) ==
    LET candidates == SelectSeq(recs, LAMBDA x :
                        /\ PassesFilters(x, q)
                        /\ x.confidence_score >= MinConfidence(q))
        scored == [i \in 1..Len(candidates) |->
                    [relevance |-> Relevance(candidates[i], q.recency_weight, clock),
                     xr |-> candidates[i]]]
        ranked == SliceTo(SortRanked(scored), q.max_results)
    IN  [i \in 1..Len(ranked) |->
            [xr_id |-> ranked[i].xr.xr_id,
             relevance_score |-> RoundDiv(ranked[i].relevance, 10000),
             confidence_score |-> ranked[i].xr.confidence_score,
             task_type |-> ranked[i].xr.task_type,
             outcome_status |-> ranked[i].xr.outcome_status]]

----------------------------------------------------------------------------
(* The callers' inputs *)

XrIds == {"r1", "r2", "r3"}

\* agents that validate and query; "a" and "b" also produce records
AgentIds == {"a", "b", "c"}

Timestamps == 0..MaxTime

\* ExperienceRecord(...): confidence_score, validation_status and
\* validator_ids take the dataclass's defaults unless the caller sets them
ExperienceRecord(xr_id, agent_id, task_type, outcome_status, timestamp) ==
    [xr_id |-> xr_id, agent_id |-> agent_id, task_type |-> task_type,
     outcome_status |-> outcome_status, timestamp |-> timestamp,
     confidence_score |-> 5000, validation_status |-> "pending",
     validator_ids |-> <<>>]

\* the records callers construct; the third and the fourth are constructed
\* with confidence_score=2.0 and -0.5, the last two miss a required field
NewRecords ==
    { ExperienceRecord("r1", "a", TypeXY, "success", 0),
      ExperienceRecord("r2", "b", TypeXYZ, "success", MaxTime),
      [ExperienceRecord("r3", "a", TypeXYz, "success", 0)
            EXCEPT !.confidence_score = 2 * One],
      [ExperienceRecord("r2", "a", TypeXY, "failure", 0)
            EXCEPT !.confidence_score = -(One \div 2)],
      ExperienceRecord("r3", "", TypeXY, "success", 0),
      ExperienceRecord("r3", "b", EmptyStr, "success", MaxTime) }

\* what deposit is called with: a new record, or once more a record object
\* that is in the pool
DepositInputs == NewRecords \cup {records[i] : i \in 1..Len(records)}

\* the arguments of a retrieve call
Query(task_type, min_confidence, max_results, recency_weight, outcome_filter, agent_id) ==
    [task_type |-> task_type, min_confidence |-> min_confidence,
     max_results |-> max_results, recency_weight |-> recency_weight,
     outcome_filter |-> outcome_filter, agent_id |-> agent_id]

\* the queries callers make
Queries ==
    { Query(Nothing, Nothing, DefaultMaxResults, 50, Nothing, "anonymous"),
      Query(Some(TypeXY), Some(5000), 1, 0, Some("success"), "anonymous"),
      Query(Some(EmptyStr), Nothing, DefaultMaxResults, 100, Nothing, "anonymous"),
      Query(Some(TypeXY), Nothing, -1, 50, Nothing, "anonymous") }

----------------------------------------------------------------------------
(* The state machine *)

EmptyMap == [k \in {} |-> 0]

Init ==
    /\ max_records \in 0..MaxCap
    /\ records = <<>>
    /\ audit_log = <<>>
    /\ agent_reputations = EmptyMap
    /\ outcome_feedback = EmptyMap
    /\ now = 0
    /\ pc = "idle"
    /\ xr_arg = Nothing
    /\ ret = [op |-> "init"]
    /\ seen = Nothing

\* a call starts when no call runs: calls do not overlap
CanCall == pc = "idle"

\* callers stop calling deposit, retrieve and validate once the audit log
\* has max_log entries
HasRoom(max_log) == Len(audit_log) < max_log

\* deposit, lines 321-327: schema validation and capacity check
DepositCheckCall(xr) ==
    /\ CanCall
    /\ IF MissingRequiredFields(xr)
       THEN /\ ret' = [op |-> "deposit", status |-> "rejected"]
            /\ UNCHANGED <<records, audit_log, pc, xr_arg>>
       ELSE /\ IF AtCapacity(records, max_records)
               THEN /\ records' = evict_oldest(records, audit_log, now).records
                    /\ audit_log' = evict_oldest(records, audit_log, now).audit_log
               ELSE UNCHANGED <<records, audit_log>>
            /\ pc' = "deposit_store"
            /\ xr_arg' = Some(xr)
            /\ UNCHANGED ret
    /\ UNCHANGED <<max_records, agent_reputations, outcome_feedback, now>>

\* a deposit call by a caller that keeps nothing
DepositCheck(xr) == DepositCheckCall(xr) /\ UNCHANGED seen

\* a deposit call by a caller that has kept the record collection as it
\* stood when the call began
DepositCheckKeeping(xr) ==
    /\ DepositCheckCall(xr)
    /\ seen' = Some([pool |-> records])

\* deposit, lines 329-344: score, store, audit, receipt
DepositStore ==
    /\ pc = "deposit_store"
    /\ LET scored == [xr_arg[1] EXCEPT !.confidence_score =
                        compute_trust_score(xr_arg[1], records,
                                            agent_reputations,
                                            outcome_feedback, now)]
       IN  /\ records' = Store(records, scored)
           /\ audit_log' = Log(audit_log, now, "deposit", scored.agent_id,
                               <<scored.xr_id>>, "accepted")
           /\ ret' = [op |-> "deposit", status |-> "accepted",
                      xr_id |-> scored.xr_id,
                      confidence_score |-> scored.confidence_score]
    /\ pc' = "idle"
    /\ xr_arg' = Nothing
    /\ UNCHANGED <<max_records, agent_reputations, outcome_feedback, now, seen>>

\* retrieve(**q), as the pool runs it
RetrieveCall(q) ==
    /\ CanCall
    /\ LET recs == Recomputed(records, q, agent_reputations, outcome_feedback, now)
           results == Results(recs, q, now)
       IN  /\ records' = recs
           /\ audit_log' = Log(audit_log, now, "retrieve", q.agent_id,
                               [i \in 1..Len(results) |-> results[i].xr_id],
                               Len(results))
           /\ ret' = [op |-> "retrieve", results |-> results]
    /\ UNCHANGED <<max_records, agent_reputations, outcome_feedback, now, pc, xr_arg>>

\* a retrieve call whose list the caller drops
Retrieve(q) == RetrieveCall(q) /\ UNCHANGED seen

\* a retrieve call whose list the caller keeps, with the query and the
\* place of the call in the audit log
RetrieveKeeping(q) ==
    /\ RetrieveCall(q)
    /\ seen' = Some([q |-> q, results |-> ret'.results,
                     at |-> Len(audit_log')])

Validate(xr_id, validator_id, validation_type) ==
    /\ CanCall
    /\ LET status == validate_status(records, xr_id, validator_id)
       IN
       IF status # "accepted"
       THEN /\ ret' = [op |-> "validate", status |-> status]
            /\ UNCHANGED <<records, audit_log, agent_reputations>>
       ELSE LET xr == apply_validation(Lookup(records, xr_id), validator_id,
                                       validation_type)
                reps == apply_reputation(agent_reputations, xr, validation_type)
                scored == [xr EXCEPT !.confidence_score =
                             compute_trust_score(xr, Store(records, xr), reps,
                                                 outcome_feedback, now)]
            IN  /\ audit_log' = Log(audit_log, now, "validate", validator_id,
                                    <<xr_id>>, validation_type)
                /\ agent_reputations' = reps
                /\ records' = Store(records, scored)
                /\ ret' = [op |-> "validate", status |-> "accepted",
                           xr_id |-> xr_id,
                           new_confidence |-> scored.confidence_score,
                           validation_status |-> scored.validation_status]
    /\ UNCHANGED <<max_records, outcome_feedback, now, pc, xr_arg, seen>>

\* round(sum(confidence_score) / len(records), 4), 0.0 on an empty pool
AvgConfidence(recs) ==
    LET RECURSIVE Sum(_)
        Sum(i) == IF i = 0 THEN 0 ELSE recs[i].confidence_score + Sum(i - 1)
    IN  IF recs = <<>> THEN 0 ELSE RoundDiv(Sum(Len(recs)), Len(recs))

\* inspect refreshing every stored score before it reports
InspectRecomputing ==
    /\ pc = "idle"
    /\ records' = [i \in 1..Len(records) |->
                    [records[i] EXCEPT !.confidence_score =
                        compute_trust_score(records[i], records,
                                            agent_reputations,
                                            outcome_feedback, now)]]
    /\ ret' = [op |-> "inspect"]
    /\ UNCHANGED <<max_records, audit_log, agent_reputations,
                   outcome_feedback, now, pc, xr_arg, seen>>

Inspect ==
    /\ pc = "idle"
    /\ ret' = [op |-> "inspect",
               total_xrs |-> Len(records),
               contributing_agents |->
                   Cardinality({records[i].agent_id : i \in 1..Len(records)}),
               avg_confidence |-> AvgConfidence(records),
               audit_entries |-> Len(audit_log),
               last_updated |-> IF records = <<>> THEN Nothing
                                ELSE Some(records[Len(records)].timestamp)]
    /\ UNCHANGED <<max_records, records, audit_log, agent_reputations,
                   outcome_feedback, now, pc, xr_arg, seen>>

\* TrustEngine.record_feedback, called by a consuming agent
RecordFeedback(xr_id, was_helpful) ==
    /\ pc = "idle"
    /\ Len(IF xr_id \in DOMAIN outcome_feedback
           THEN outcome_feedback[xr_id] ELSE <<>>) < MaxFeedback
    /\ outcome_feedback' = record_feedback(outcome_feedback, xr_id, was_helpful)
    /\ ret' = [op |-> "record_feedback"]
    /\ UNCHANGED <<max_records, records, audit_log, agent_reputations, now,
                   pc, xr_arg, seen>>

\* TrustEngine.update_agent_reputation called on the pool's engine by a
\* caller, for an agent the engine has not seen: the agent comes to the pool
\* with a reputation near an end of [0,1], which validations alone reach
\* only after ten of them
UpdateAgentReputation(agent_id, delta) ==
    /\ pc = "idle"
    /\ agent_id \notin DOMAIN agent_reputations
    /\ agent_reputations' =
            update_agent_reputation(agent_reputations, agent_id, delta)
    /\ ret' = [op |-> "update_agent_reputation"]
    /\ UNCHANGED <<max_records, records, audit_log, outcome_feedback, now,
                   pc, xr_arg, seen>>

\* time passes between calls
Tick ==
    /\ pc = "idle"
    /\ now < MaxTime
    /\ now' = now + 1
    /\ UNCHANGED <<max_records, records, audit_log, agent_reputations,
                   outcome_feedback, pc, xr_arg, ret, seen>>

Next ==
    \/ HasRoom(MaxLog) /\ \E xr \in DepositInputs : DepositCheck(xr)
    \/ DepositStore
    \/ HasRoom(MaxLog) /\ \E q \in Queries : Retrieve(q)
    \/ /\ HasRoom(MaxLog)
       /\ \E xr_id \in XrIds, validator_id \in AgentIds,
             validation_type \in ValidationType :
               Validate(xr_id, validator_id, validation_type)
    \/ Inspect
    \/ Tick

Spec == Init /\ [][Next]_vars

----------------------------------------------------------------------------
(* The pool together with its trust engine's own methods, the clock held   *)
(* fixed: callers also record feedback and adjust reputations.             *)

\* the records deposited here; the last misses a required field
EngineRecords ==
    { ExperienceRecord("r1", "a", TypeXY, "success", 0),
      ExperienceRecord("r2", "b", TypeXY, "failure", 0),
      ExperienceRecord("r3", "", TypeXY, "success", 0) }

\* the record ids validated here, and the validators
EngineXrIds == {"r1", "r2"}

EngineValidators == {"a", "b"}

\* retrieve()
EngineQuery ==
    Query(Nothing, Nothing, DefaultMaxResults, 50, Nothing, "anonymous")

\* the queries made here: retrieve(), and one with every filter
EngineQueries ==
    { EngineQuery,
      Query(Some(TypeXY), Some(5000), 1, 0, Some("success"), "anonymous") }

\* the reputation adjustments callers make: +0.45 and -0.45
EngineDeltas == {9 * ReputationDelta, -(9 * ReputationDelta)}

NextEngine ==
    \/ HasRoom(MaxLog) /\ \E xr \in EngineRecords : DepositCheck(xr)
    \/ DepositStore
    \/ HasRoom(MaxLog) /\ \E q \in EngineQueries : RetrieveKeeping(q)
    \/ /\ HasRoom(MaxLog)
       /\ \E xr_id \in EngineXrIds, validator_id \in EngineValidators,
             validation_type \in ValidationType :
               Validate(xr_id, validator_id, validation_type)
    \/ Inspect
    \/ \E was_helpful \in BOOLEAN : RecordFeedback("r1", was_helpful)
    \/ \E delta \in EngineDeltas : UpdateAgentReputation("a", delta)

SpecEngine == Init /\ [][NextEngine]_vars

----------------------------------------------------------------------------
(* A pool constructed with the default capacity, into which callers        *)
(* deposit and which they inspect.                                         *)

InitDefault ==
    /\ max_records = DefaultMaxRecords
    /\ records = <<>>
    /\ audit_log = <<>>
    /\ agent_reputations = EmptyMap
    /\ outcome_feedback = EmptyMap
    /\ now = 0
    /\ pc = "idle"
    /\ xr_arg = Nothing
    /\ ret = [op |-> "init"]
    /\ seen = Nothing

NextInspect ==
    \/ HasRoom(MaxLog) /\ \E xr \in NewRecords : DepositCheck(xr)
    \/ DepositStore
    \/ Inspect

SpecInspect == InitDefault /\ [][NextInspect]_vars

----------------------------------------------------------------------------
(* Callers that deposit, confirm and retrieve, keeping what retrieve        *)
(* returned; the clock and the feedback map are held fixed.                 *)

\* the records deposited here; the second is stamped 200 days ahead of the
\* clock
ConfirmRecords ==
    { ExperienceRecord("r1", "a", TypeXY, "success", 0),
      ExperienceRecord("r2", "b", TypeXY, "success", 200) }

\* the validators here: "b" produces r2, "c" produces nothing
ConfirmValidators == {"b", "c"}

NextConfirm ==
    \/ HasRoom(MaxConfirmLog) /\ \E xr \in ConfirmRecords : DepositCheck(xr)
    \/ DepositStore
    \/ HasRoom(MaxConfirmLog) /\ RetrieveKeeping(EngineQuery)
    \/ /\ HasRoom(MaxConfirmLog)
       /\ \E xr_id \in EngineXrIds, validator_id \in ConfirmValidators :
               Validate(xr_id, validator_id, "confirm")

SpecConfirm == Init /\ [][NextConfirm]_vars

----------------------------------------------------------------------------
(* Properties.  A step of a call is named by its action; what the call      *)
(* returned is read from ret'.  Where a formula first tests ret'.op, that  *)
(* only spares evaluating the action on the steps of other operations.     *)

\* the audit log's entry i names a validation of validation_type
IsValidateEntry(i, validation_type) ==
    /\ audit_log[i].operation = "validate"
    /\ audit_log[i].outcome = validation_type

\* C1: in every reachable state, also between the eviction and the insertion
\* of a deposit, the pool holds at most max_records records, for every
\* max_records >= 0.
C1_CapacityNeverExceeded == Len(records) <= max_records

\* C2: an accepted deposit made while the pool holds max_records records
\* removes exactly one stored record, one whose (confidence_score, timestamp)
\* is minimal in the pool; one made below max_records removes none, and the
\* insertion removes none.
C2_EvictsExactlyTheMinimum ==
    [][ /\ \A xr \in DepositInputs :
            (DepositCheck(xr) /\ pc' = "deposit_store") =>
                /\ Len(records) = max_records =>
                     \E i \in 1..Len(records) :
                        /\ \A j \in 1..Len(records) :
                              ~KeyLess(records[j], records[i])
                        /\ records' = [k \in 1..(Len(records) - 1) |->
                              IF k < i THEN records[k] ELSE records[k + 1]]
                /\ Len(records) < max_records => records' = records
        /\ DepositStore => PoolIds(records) \subseteq PoolIds(records')
      ]_vars

\* C3: a validate call refused for an unknown record id returns error, one
\* refused for a self-validation returns rejected, for every validation
\* type; either leaves every record (its validator_ids, validation_status
\* and confidence_score) and every reputation as it was.
C3_RefusedValidateChangesNothing ==
    [][ ret'.op = "validate" =>
        /\ \A xr_id \in XrIds \ PoolIds(records), validator_id \in AgentIds,
              validation_type \in ValidationType :
                Validate(xr_id, validator_id, validation_type) =>
                    /\ ret'.status = "error"
                    /\ records' = records
                    /\ agent_reputations' = agent_reputations
        /\ \A i \in 1..Len(records), validation_type \in ValidationType :
                Validate(records[i].xr_id, records[i].agent_id,
                         validation_type) =>
                    /\ ret'.status = "rejected"
                    /\ records' = records
                    /\ agent_reputations' = agent_reputations
      ]_vars

\* C3's case: a self-validation has been rejected on a record that others
\* have validated and whose producer's reputation has moved
C3_Witness ==
    /\ ret.op = "validate"
    /\ ret.status = "rejected"
    /\ \E i \in 1..Len(records) :
        /\ records[i].validator_ids # <<>>
        /\ records[i].agent_id \in DOMAIN agent_reputations

C5_DisputedNeverValidated ==
    [][ \A xr_id \in XrIds :
            ( /\ xr_id \in PoolIds(records)
              /\ xr_id \in PoolIds(records')
              /\ Lookup(records, xr_id).validation_status = "disputed" ) =>
                Lookup(records', xr_id).validation_status # "validated"
      ]_vars

\* type is T, or T followed by "." and more
IsTypeOrSubtype(type, T) ==
    \/ type = T
    \/ /\ Len(type) > Len(T)
       /\ \A i \in 1..Len(T) : type[i] = T[i]
       /\ type[Len(T) + 1] = "."

\* what C6 says of the entries retrieve(q) returned; has_task_type tells
\* whether q counts as supplying a task type
RetrievedPassFilters(q, has_task_type) ==
    \A i \in 1..Len(ret'.results) :
        LET e == ret'.results[i]
        IN  /\ e.xr_id \in PoolIds(records')
            /\ LET xr == Lookup(records', e.xr_id)
               IN  /\ has_task_type =>
                        IsTypeOrSubtype(xr.task_type, q.task_type[1])
                   /\ q.outcome_filter # Nothing =>
                        xr.outcome_status = q.outcome_filter[1]
                   /\ xr.confidence_score =
                        compute_trust_score(xr, records', agent_reputations,
                                            outcome_feedback, now)
                   /\ e.confidence_score = xr.confidence_score
                   /\ xr.confidence_score >=
                        (IF q.min_confidence = Nothing
                         THEN min_confidence_threshold
                         ELSE q.min_confidence[1])

\* C6 as claimed: every entry retrieve(task_type=T, min_confidence=m,
\* outcome_filter=o) returns is a record of the pool whose task_type is T or
\* starts with T and a dot, for every T the caller supplies; whose outcome is
\* o when o is supplied; and whose recomputed confidence_score is at least m
\* (the pool's threshold when m is not supplied).
C6_RetrievedPassFiltersAnyT ==
    [][ \A q \in Queries :
            (ret'.op = "retrieve" /\ Retrieve(q)) =>
                RetrievedPassFilters(q, q.task_type # Nothing)
      ]_vars

\* C6 as amended: the same for every non-empty T the caller supplies (an
\* empty T is taken as no task type: retrieve then applies no type filter).
C6_RetrievedPassFilters ==
    [][ \A q \in Queries :
            (ret'.op = "retrieve" /\ Retrieve(q)) =>
                RetrievedPassFilters(q,
                    q.task_type # Nothing /\ q.task_type[1] # EmptyStr)
      ]_vars

\* C6's case: a retrieve has returned the one record of type "x.y" and has
\* left out a successful record of type "x.yz" that is not below 0.5
C6_Witness ==
    /\ pc = "idle"
    /\ ret.op = "retrieve"
    /\ Len(ret.results) = 1
    /\ ret.results[1].task_type = TypeXY
    /\ \E i \in 1..Len(records) :
        /\ records[i].task_type = TypeXYz
        /\ records[i].outcome_status = "success"
        /\ records[i].confidence_score >= 5000

\* C7: retrieve's list is ordered by relevance descending, relevance being
\* (1 - recency_weight) * confidence_score + recency_weight * recency, and
\* for any max_results, negative ones too, it has at most max_results
\* entries (none, as a list has no fewer, when max_results is negative).
C7_RankedAndTruncated ==
    [][ \A q \in Queries :
            Retrieve(q) =>
                LET rel(i) ==
                        LET xr == Lookup(records', ret'.results[i].xr_id)
                        IN  (100 - q.recency_weight) * xr.confidence_score * 100
                            + q.recency_weight
                                * compute_recency_factor(xr.timestamp, now)
                IN  /\ \A i \in 1..(Len(ret'.results) - 1) : rel(i) >= rel(i + 1)
                    /\ Len(ret'.results) <= Max(0, q.max_results)
      ]_vars

\* C8: every call of deposit, retrieve or validate, whatever it returns,
\* leaves the audit log strictly longer than it was when the call began (a
\* deposit's eviction, if any, has lengthened it before the deposit returns).
C8_EveryCallIsLogged ==
    [][ /\ \A xr \in DepositInputs :
            (DepositCheck(xr) /\ pc' = "idle") =>
                Len(audit_log') > Len(audit_log)
        /\ DepositStore => Len(audit_log') > Len(audit_log)
        /\ \A q \in Queries :
            Retrieve(q) => Len(audit_log') > Len(audit_log)
        /\ \A xr_id \in XrIds, validator_id \in AgentIds,
              validation_type \in ValidationType :
            Validate(xr_id, validator_id, validation_type) =>
                Len(audit_log') > Len(audit_log)
      ]_vars

\* C9: in every step of every operation, eviction included, the audit log
\* before the step is a prefix of the audit log after it.
C9_AuditLogAppendOnly ==
    [][ /\ Len(audit_log) <= Len(audit_log')
        /\ SubSeq(audit_log', 1, Len(audit_log)) = audit_log
      ]_vars

\* C9's case: a deposit at capacity has logged its eviction and itself
\* behind an earlier entry
C9_Witness ==
    /\ Len(audit_log) >= 3
    /\ audit_log[Len(audit_log) - 1].operation = "evict"
    /\ audit_log[Len(audit_log)].operation = "deposit"

\* C10: deposit returns rejected exactly when the record's agent_id or
\* task_type is empty, and accepted otherwise; a rejected deposit leaves the
\* record collection as it was, also at capacity.
C10_DepositRejectsExactlyMissingFields ==
    [][ /\ \A xr \in DepositInputs :
            DepositCheck(xr) =>
                IF xr.agent_id = "" \/ xr.task_type = <<>>
                THEN /\ pc' = "idle"
                     /\ ret'.op = "deposit"
                     /\ ret'.status = "rejected"
                     /\ records' = records
                ELSE pc' = "deposit_store"
        /\ DepositStore =>
                /\ pc' = "idle"
                /\ ret'.op = "deposit"
                /\ ret'.status = "accepted"
      ]_vars

\* C10's case: a deposit has been rejected by a pool that is at capacity
C10_Witness ==
    /\ ret.op = "deposit"
    /\ ret.status = "rejected"
    /\ max_records > 0
    /\ Len(records) = max_records

\* the stored score of record i differs from its composite in this state
Stale(i) ==
    records[i].confidence_score #
        compute_trust_score(records[i], records, agent_reputations,
                            outcome_feedback, now)

\* C11: inspect changes no state: the record collection with every record's
\* confidence_score, validation_status and validator_ids, the agent
\* reputations, the feedback map and the audit log are after an inspect call
\* what they were before it.
C11_InspectChangesNothing ==
    [][ Inspect =>
            /\ records' = records
            /\ agent_reputations' = agent_reputations
            /\ outcome_feedback' = outcome_feedback
            /\ audit_log' = audit_log
      ]_vars

\* C11's case: inspect has reported on a pool that holds a validated record
\* whose stored score a recomputation would change
C11_Witness ==
    /\ ret.op = "inspect"
    /\ ret.total_xrs >= 1
    /\ agent_reputations # EmptyMap
    /\ \E i \in 1..Len(records) :
        /\ records[i].validator_ids # <<>>
        /\ Stale(i)

\* C12: in every reachable state the stored confidence_score of every record
\* in the pool lies in [0,1], whatever confidence_score the record carried
\* when it was handed to deposit.
C12_StoredScoreInUnitInterval ==
    \A i \in 1..Len(records) :
        /\ records[i].confidence_score >= 0
        /\ records[i].confidence_score <= One

\* C12's case: the pool holds a record that was handed to deposit carrying
\* a confidence_score of 2.0, and one handed over carrying -0.5
C12_Witness ==
    /\ pc = "idle"
    /\ \E i, j \in 1..Len(records) :
        /\ records[i].xr_id = "r3" /\ records[i].task_type = TypeXYz
        /\ records[j].xr_id = "r2" /\ records[j].outcome_status = "failure"

\* C13: before and after every step every reputation lies in [0,1] (an agent
\* the engine holds no reputation for has 0.5); an accepted confirm sets the producer's
\* reputation to min(1, old + 0.05), an accepted dispute to
\* max(0, old - 0.05), neither changes another agent's; an amend, a refused
\* validate, deposit, retrieve, inspect and record_feedback change no
\* reputation.
C13_ReputationsClampedAndMovedOnlyByValidation ==
    [][
            /\ \A a \in DOMAIN agent_reputations :
                    agent_reputations[a] >= 0 /\ agent_reputations[a] <= One
            /\ \A a \in DOMAIN agent_reputations' :
                    agent_reputations'[a] >= 0 /\ agent_reputations'[a] <= One
            /\ ret'.op = "validate" =>
               \A xr_id \in EngineXrIds, validator_id \in EngineValidators,
                  validation_type \in ValidationType :
                Validate(xr_id, validator_id, validation_type) =>
                    IF /\ xr_id \in PoolIds(records)
                       /\ validator_id # Lookup(records, xr_id).agent_id
                       /\ validation_type \in {"confirm", "dispute"}
                    THEN LET producer == Lookup(records, xr_id).agent_id
                             old == IF producer \in DOMAIN agent_reputations
                                    THEN agent_reputations[producer]
                                    ELSE One \div 2
                         IN  /\ DOMAIN agent_reputations' =
                                    DOMAIN agent_reputations \cup {producer}
                             /\ agent_reputations'[producer] =
                                    IF validation_type = "confirm"
                                    THEN Min(One, old + 500)
                                    ELSE Max(0, old - 500)
                             /\ \A a \in DOMAIN agent_reputations \ {producer} :
                                    agent_reputations'[a] = agent_reputations[a]
                    ELSE agent_reputations' = agent_reputations
            /\ \/ agent_reputations' = agent_reputations
               \/ ~ \/ \E xr \in EngineRecords : DepositCheck(xr)
                     \/ DepositStore
                     \/ \E q \in EngineQueries : RetrieveKeeping(q)
                     \/ Inspect
                     \/ \E was_helpful \in BOOLEAN :
                            RecordFeedback("r1", was_helpful)
      ]_vars

\* C13's case: a confirm has met a reputation already at 1 and left it
\* there, on a pool whose records have feedback
C13_Witness ==
    /\ ret.op = "validate"
    /\ ret.status = "accepted"
    /\ outcome_feedback # EmptyMap
    /\ Len(audit_log) >= 3
    /\ IsValidateEntry(Len(audit_log) - 1, "confirm")
    /\ IsValidateEntry(Len(audit_log), "confirm")
    /\ \E a \in DOMAIN agent_reputations : agent_reputations[a] = One

\* C14: with the clock and the feedback map fixed, when a retrieve has
\* reported a confidence c1 for a record that had no validators (and so was
\* pending), the only calls accepted since then are two confirms of that
\* record, and a retrieve now reports a confidence c2 for it, then c2 > c1.
C14_TwoConfirmsRaiseConfidence ==
    [][ ( /\ RetrieveKeeping(EngineQuery)
          /\ seen # Nothing
          /\ Len(audit_log) >= 3
          /\ seen[1].at = Len(audit_log) - 2
          /\ IsValidateEntry(Len(audit_log) - 1, "confirm")
          /\ IsValidateEntry(Len(audit_log), "confirm")
          /\ audit_log[Len(audit_log) - 1].xr_ids = audit_log[Len(audit_log)].xr_ids
          /\ audit_log[Len(audit_log)].xr_ids[1] \in PoolIds(records) ) =>
            LET A == audit_log[Len(audit_log)].xr_ids[1]
            IN  Len(Lookup(records, A).validator_ids) = 2 =>
                    \A i \in 1..Len(seen[1].results), j \in 1..Len(ret'.results) :
                        ( /\ seen[1].results[i].xr_id = A
                          /\ ret'.results[j].xr_id = A ) =>
                            ret'.results[j].confidence_score >
                                seen[1].results[i].confidence_score
      ]_vars

\* C15: while the clock has not moved and no call is running, the stored
\* confidence_score of every record in the pool is the composite trust
\* score of that record in the current state (pool contents, reputations,
\* feedback map).
C15_StoredScoreIsCurrentComposite ==
    (now = 0 /\ pc = "idle") => \A i \in 1..Len(records) : ~Stale(i)

C17_LastUpdatedIsLatestDeposit ==
    [][ Inspect =>
            IF records = <<>>
            THEN /\ ret'.total_xrs = 0
                 /\ ret'.avg_confidence = 0
                 /\ ret'.last_updated = <<>>
            ELSE LET kept == {i \in 1..Len(audit_log) :
                                /\ audit_log[i].operation = "deposit"
                                /\ audit_log[i].xr_ids[1] \in PoolIds(records)}
                     latest == CHOOSE i \in kept : \A j \in kept : j <= i
                 IN  ret'.last_updated =
                        <<Lookup(records, audit_log[latest].xr_ids[1]).timestamp>>
      ]_vars

\* C18: for a retrieve(q) with a task type T, let M be the records of the
\* pool, after the call, whose task_type is T or starts with T and a dot,
\* that pass the outcome filter if one is supplied, and whose recomputed
\* confidence_score is at least min_confidence.  When M has at most
\* max_results records, retrieve returns every record of M; when it has
\* more, retrieve returns max_results records (none for a negative
\* max_results), all of M, and no record of M left out is more relevant
\* than one returned.
C18_RetrieveReturnsAllMatches ==
    [][ \A q \in Queries :
            (ret'.op = "retrieve" /\ q.task_type # Nothing /\ Retrieve(q)) =>
                LET M == {i \in 1..Len(records') :
                            /\ IsTypeOrSubtype(records'[i].task_type,
                                               q.task_type[1])
                            /\ q.outcome_filter # Nothing =>
                                 records'[i].outcome_status = q.outcome_filter[1]
                            /\ compute_trust_score(records'[i], records',
                                    agent_reputations, outcome_feedback, now)
                                 >= (IF q.min_confidence = Nothing
                                     THEN min_confidence_threshold
                                     ELSE q.min_confidence[1])}
                    returned == {ret'.results[k].xr_id :
                                    k \in 1..Len(ret'.results)}
                IN  IF Cardinality(M) <= q.max_results
                    THEN \A i \in M : records'[i].xr_id \in returned
                    ELSE /\ Len(ret'.results) = Max(0, q.max_results)
                         /\ \A i \in M :
                              \/ records'[i].xr_id \in returned
                              \/ \A j \in M :
                                    records'[j].xr_id \in returned =>
                                        Relevance(records'[j], q.recency_weight, now)
                                            >= Relevance(records'[i],
                                                         q.recency_weight, now)
                         /\ returned \subseteq {records'[i].xr_id : i \in M}
      ]_vars

\* after the step, the stored score of the record under xr_id is its
\* composite computed from the state the step leaves
FreshAfter(xr_id) ==
    Lookup(records', xr_id).confidence_score =
        compute_trust_score(Lookup(records', xr_id), records',
                            agent_reputations', outcome_feedback', now')

\* C19: with the clock fixed, right after an accepted deposit of record r,
\* an accepted validate of r, or a retrieve whose task-type and outcome
\* filters r passes, the stored confidence_score of r is the composite trust
\* score of r computed from the pool, the reputations and the feedback as
\* the call leaves them.
C19_ScoreFreshAfterTouch ==
    [][ /\ DepositStore => FreshAfter(xr_arg[1].xr_id)
        /\ (ret'.op = "validate" /\ ret'.status = "accepted") =>
              \A xr_id \in EngineXrIds, validator_id \in EngineValidators,
                 validation_type \in ValidationType :
                    Validate(xr_id, validator_id, validation_type)
                        => FreshAfter(xr_id)
        /\ ret'.op = "retrieve" =>
              \A q \in EngineQueries :
                  RetrieveKeeping(q) =>
                      \A i \in 1..Len(records') :
                          PassesFilters(records'[i], q) =>
                              FreshAfter(records'[i].xr_id)
      ]_vars

\* a retrieve has just rescored r1, which has a validator and feedback
C19_Witness ==
    /\ ret.op = "retrieve"
    /\ audit_log # <<>>
    /\ audit_log[Len(audit_log)].operation = "retrieve"
    /\ "r1" \in DOMAIN outcome_feedback
    /\ \E i \in 1..Len(records) :
          /\ records[i].xr_id = "r1"
          /\ records[i].validator_ids # <<>>
          /\ records[i].xr_id \in {ret.results[k].xr_id : k \in 1..Len(ret.results)}
          /\ ~Stale(i)
          /\ records[i].confidence_score # 5500

\* C20: retrieve leaves the set of pooled records, every record's
\* validation_status and validator_ids, the agent reputations and the
\* feedback map as they were and appends exactly one audit entry, also when
\* nothing matches and the returned list is empty; of the remaining state it
\* changes only the stored confidence_score of records passing its task-type
\* and outcome filters; and with the clock fixed the same retrieve run a
\* second time, right after the first, leaves the stored scores of the
\* first and returns the list of the first.
C20_RetrieveOnlyRescoresIdempotently ==
    [][ ret'.op = "retrieve" =>
          \A q \in EngineQueries :
              RetrieveKeeping(q) =>
                  /\ Len(records') = Len(records)
                  /\ \A i \in 1..Len(records) :
                        /\ [records'[i] EXCEPT !.confidence_score = 0] =
                               [records[i] EXCEPT !.confidence_score = 0]
                        /\ ~PassesFilters(records[i], q) =>
                               records'[i] = records[i]
                  /\ agent_reputations' = agent_reputations
                  /\ outcome_feedback' = outcome_feedback
                  /\ max_records' = max_records
                  /\ now' = now
                  /\ Len(audit_log') = Len(audit_log) + 1
                  /\ SubSeq(audit_log', 1, Len(audit_log)) = audit_log
                  /\ audit_log'[Len(audit_log')].operation = "retrieve"
                  /\ ( /\ ret.op = "retrieve"
                       /\ seen # Nothing
                       /\ seen[1].q = q
                       /\ seen[1].at = Len(audit_log) )
                     => /\ records' = records
                        /\ ret'.results = seen[1].results
      ]_vars

\* the same retrieve has run twice in a row, after a deposit of a record its
\* filters leave out, and has returned an empty list both times
C20_Witness ==
    /\ ret.op = "retrieve"
    /\ ret.results = <<>>
    /\ seen # Nothing
    /\ seen[1].at = Len(audit_log)
    /\ Len(audit_log) = 3
    /\ audit_log[2].operation = "retrieve"
    /\ audit_log[3].operation = "retrieve"
    /\ audit_log[2].actor = audit_log[3].actor
    /\ audit_log[2].outcome = 0
    /\ audit_log[3].outcome = 0
    /\ seen[1].q.outcome_filter = Some("success")
    /\ Len(records) = 1
    /\ records[1].outcome_status = "failure"
    /\ records[1].confidence_score >= min_confidence_threshold
    /\ outcome_feedback = EmptyMap
    /\ agent_reputations = EmptyMap

-----------------------------------------------------------------------------
(* Deposits into a pool whose contents the caller has kept: deposits of new *)
(* records, with validations between them.                                  *)

NextDeposit ==
    \/ HasRoom(MaxLog) /\ \E xr \in EngineRecords : DepositCheckKeeping(xr)
    \/ DepositStore
    \/ /\ HasRoom(MaxLog)
       /\ \E xr_id \in EngineXrIds, validator_id \in EngineValidators,
             validation_type \in ValidationType :
                Validate(xr_id, validator_id, validation_type)

SpecDeposit == Init /\ [][NextDeposit]_vars

\* C21: the confidence_score an accepted deposit stores in the new record
\* and returns in its receipt is the composite of the record computed
\* against the record collection as it stood when the deposit call began,
\* also when the deposit evicts a record.
C21_DepositScoresAgainstPoolBeforeCall ==
    [][ DepositStore =>
            LET before == compute_trust_score(xr_arg[1], seen[1].pool,
                              agent_reputations, outcome_feedback, now)
            IN  /\ ret'.confidence_score = before
                /\ Lookup(records', xr_arg[1].xr_id).confidence_score = before
      ]_vars

\* C22: an accepted confirm appends the validator id to validator_ids and
\* sets the record's status to validated exactly when validator_ids then
\* has at least 2 entries, repeated ids and the entries of earlier amend and
\* dispute calls counted; a confirm that leaves fewer than 2 entries leaves
\* the status as it was.  Two confirms by one validator so validate a
\* pending record that had no validators.
C22_ConfirmValidatesAtTwoEntries ==
    [][ (ret'.op = "validate" /\ ret'.status = "accepted") =>
          \A xr_id \in EngineXrIds, validator_id \in EngineValidators :
              Validate(xr_id, validator_id, "confirm") =>
                  LET old == Lookup(records, xr_id)
                      new == Lookup(records', xr_id)
                  IN  /\ new.validator_ids =
                            Append(old.validator_ids, validator_id)
                      /\ IF Len(new.validator_ids) >= 2
                         THEN new.validation_status = "validated"
                         ELSE new.validation_status = old.validation_status
      ]_vars

\* a record deposited pending has been confirmed twice by one validator, and
\* nothing else has been logged
C22_Witness ==
    /\ Len(audit_log) = 3
    /\ audit_log[1].operation = "deposit"
    /\ IsValidateEntry(2, "confirm")
    /\ IsValidateEntry(3, "confirm")
    /\ audit_log[2].xr_ids = audit_log[1].xr_ids
    /\ audit_log[3].xr_ids = audit_log[1].xr_ids
    /\ audit_log[2].actor = audit_log[3].actor
    /\ ret.op = "validate"
    /\ LET xr == Lookup(records, audit_log[1].xr_ids[1])
       IN  /\ xr.validator_ids = <<audit_log[2].actor, audit_log[2].actor>>
           /\ xr.validation_status = "validated"

\* C23: an accepted deposit made while the pool is at capacity appends two
\* audit entries: first, once the evicted record is out of the pool, an
\* entry with operation evict and actor "system" naming that record's id;
\* then, once the new record is in the pool, an entry with operation
\* deposit naming the new record's id.  An accepted deposit below capacity
\* appends the deposit entry alone.
C23_EvictionLoggedBeforeDeposit ==
    [][ /\ (pc = "idle" /\ pc' = "deposit_store") =>
              \A xr \in DepositInputs :
                  DepositCheck(xr) =>
                      IF Len(records) >= max_records
                      THEN /\ Len(audit_log') = Len(audit_log) + 1
                           /\ SubSeq(audit_log', 1, Len(audit_log)) = audit_log
                           /\ LET e == audit_log'[Len(audit_log')]
                              IN  /\ e.operation = "evict"
                                  /\ e.actor = "system"
                                  /\ Len(e.xr_ids) = 1
                                  /\ e.xr_ids[1] \in PoolIds(records)
                                  /\ e.xr_ids[1] \notin PoolIds(records')
                      ELSE audit_log' = audit_log
        /\ DepositStore =>
              /\ Len(audit_log') = Len(audit_log) + 1
              /\ SubSeq(audit_log', 1, Len(audit_log)) = audit_log
              /\ LET d == audit_log'[Len(audit_log')]
                 IN  /\ d.operation = "deposit"
                     /\ d.xr_ids = <<xr_arg[1].xr_id>>
                     /\ xr_arg[1].xr_id \in PoolIds(records')
      ]_vars

\* the accepted validate calls logged in log for the record under xr_id
\* since that record was deposited
ValidatesSinceDeposit(log, xr_id) ==
    LET deposits == {k \in 1..Len(log) :
                        /\ log[k].operation = "deposit"
                        /\ log[k].xr_ids = <<xr_id>>}
    IN  {k \in 1..Len(log) :
            /\ log[k].operation = "validate"
            /\ log[k].xr_ids = <<xr_id>>
            /\ \A d \in deposits : d < k}

\* C24: with every record deposited pending and with no validators, in
\* every state a step leads to, a validated record has at least 2 entries
\* in validator_ids, a disputed record at least 1, and a record has as many
\* entries as accepted validate calls were made on it since its deposit;
\* a step other than the deposit of a new record under its id leaves a
\* record that is not pending not pending and its validator_ids as they
\* were, but for the validator id that an accepted validate call on it
\* appends at the end.
C24_ValidatorIdsCountAcceptedValidations ==
    [][ /\ \A i \in 1..Len(records') :
              LET xr == records'[i]
              IN  /\ xr.validation_status = "validated" =>
                        Len(xr.validator_ids) >= 2
                  /\ xr.validation_status = "disputed" =>
                        Len(xr.validator_ids) >= 1
                  /\ Len(xr.validator_ids) =
                        Cardinality(ValidatesSinceDeposit(audit_log', xr.xr_id))
        /\ \A i \in 1..Len(records) :
              LET old == records[i]
              IN  ( /\ old.xr_id \in PoolIds(records')
                    /\ ~(DepositStore /\ xr_arg[1].xr_id = old.xr_id) ) =>
                      LET new == Lookup(records', old.xr_id)
                          last == audit_log'[Len(audit_log')]
                      IN  /\ old.validation_status # "pending" =>
                                new.validation_status # "pending"
                          /\ IF /\ Len(audit_log') = Len(audit_log) + 1
                                /\ last.operation = "validate"
                                /\ last.xr_ids = <<old.xr_id>>
                             THEN new.validator_ids =
                                    Append(old.validator_ids, last.actor)
                             ELSE new.validator_ids = old.validator_ids
      ]_vars

\* a record deposited pending has had two accepted validate calls, the first
\* of which took it out of pending, and has two validator ids
C24_Witness ==
    /\ Len(audit_log) = 3
    /\ audit_log[1].operation = "deposit"
    /\ IsValidateEntry(2, "dispute")
    /\ IsValidateEntry(3, "amend")
    /\ audit_log[2].xr_ids = audit_log[1].xr_ids
    /\ audit_log[3].xr_ids = audit_log[1].xr_ids
    /\ ret.op = "validate"
    /\ LET xr == Lookup(records, audit_log[1].xr_ids[1])
       IN  /\ xr.validator_ids = <<audit_log[2].actor, audit_log[3].actor>>
           /\ xr.validation_status = "disputed"

====
